---- MODULE Spec2Model ----
(***************************************************************************)
(* Model of PointerActivityMonitor (src/pointer_monitor.py): the capture   *)
(* toggle, the sample store and its JSON persistence, the virtual desktop  *)
(* bounds and the binning done by create_heatmap.                          *)
(***************************************************************************)
EXTENDS Integers, Sequences, FiniteSets, Bags, TLC

\* ------------------------------------------------------------------ bounds
\* longest sample list the capture actions build
MaxSamples == 2
\* last reading of the wall clock (time.time(), datetime.now())
MaxClock == 1
\* screen origins range over -MaxOriginX..MaxOriginX and -MaxOriginY..MaxOriginY
MaxOriginX == 1
MaxOriginY == 2
\* a topology has 1..MaxScreens screens
MaxScreens == 2
\* screen widths and heights range over 1..MaxSize
MaxSize == 2
\* stored coordinates of the binning inputs range over -MaxCoord..MaxCoord
MaxCoord == 1
\* number of samples in the binning inputs
MaxBinned == 1

\* the number handed to np.linspace for each axis: the number of bin EDGES
Resolution == 120

\* ------------------------------------------------------- Python values
\* None and str, as far as the sample's 'session' field needs them
None == [isNone |-> TRUE, str |-> << >>]
Str(s) == [isNone |-> FALSE, str |-> s]

\* a slip in the dict literal: the two coordinates exchanged
NewSampleSwapped(x, y, timestamp, session) == [x |-> y, y |-> x, timestamp |-> timestamp, session |-> session]

\* the dict literal built by on_mouse_move
NewSample(x, y, timestamp, session) == [x |-> x, y |-> y, timestamp |-> timestamp, session |-> session]

\* the Python object bound to self.pointer_data: a list of samples, or what
\* json.load may return instead (a dict holding one record, None)
PyList(items) == [type |-> "list", items |-> items]
PyDict(rec) == [type |-> "dict", items |-> <<rec>>]
PyNone == [type |-> "NoneType", items |-> << >>]

\* ------------------------------------------------------------- decimal text
DigitChar == <<"0", "1", "2", "3", "4", "5", "6", "7", "8", "9">>
DigitSet == {DigitChar[i] : i \in 1..10}
DigitVal(c) == (CHOOSE i \in 1..10 : DigitChar[i] = c) - 1

RECURSIVE Digits(_)
\* str(n) for n >= 0, one element per character
Digits(n) == IF n < 10 THEN <<DigitChar[n + 1]>> ELSE Digits(n \div 10) \o <<DigitChar[(n % 10) + 1]>>

\* datetime.now().isoformat(): the text of the clock reading
IsoFormat(t) == Str(<<"T">> \o Digits(t))

\* -------------------------------------------------------------- json.dump
\* The text is a sequence of characters; a key name and null are one element
\* each, and " " stands for each run of white space that indent=2 inserts.
Quote == "'"
DumpStr(s) == <<Quote>> \o s \o <<Quote>>
\* a slip in the integer's text: the sign left out
DumpIntUnsigned(n) == IF n < 0 THEN Digits(-n) ELSE Digits(n)
DumpInt(n) == IF n < 0 THEN <<"-">> \o Digits(-n) ELSE Digits(n)
\* float.__repr__ of a whole number of clock ticks
DumpFloat(t) == DumpInt(t) \o <<".", "0">>
DumpSession(s) == IF s.isNone THEN <<"null">> ELSE DumpStr(s.str)
DumpMember(key, val) == DumpStr(<<key>>) \o <<":", " ">> \o val
DumpSample(r) ==
    <<"{", " ">> \o DumpMember("x", DumpInt(r.x)) \o <<",", " ">>
        \o DumpMember("y", DumpInt(r.y)) \o <<",", " ">>
        \o DumpMember("timestamp", DumpFloat(r.timestamp)) \o <<",", " ">>
        \o DumpMember("session", DumpSession(r.session)) \o <<" ", "}">>

RECURSIVE DumpItems(_)
DumpItems(items) ==
    IF Len(items) = 1 THEN DumpSample(items[1])
    ELSE DumpSample(items[1]) \o <<",", " ">> \o DumpItems(Tail(items))

DumpList(items) == IF items = << >> THEN <<"[", "]">> ELSE <<"[", " ">> \o DumpItems(items) \o <<" ", "]">>

\* json.dumps(obj, indent=2) of the objects self.pointer_data can hold
JsonDump(obj) ==
    CASE obj.type = "list" -> DumpList(obj.items)
      [] obj.type = "dict" -> DumpSample(obj.items[1])
      [] OTHER -> <<"null">>

\* -------------------------------------------------------------- json.load
\* A parse step returns [pos, val]: pos is the index after what was read, or
\* Fail when the text is not JSON there (json.JSONDecodeError).
Fail == 0
At(t, i) == IF i >= 1 /\ i <= Len(t) THEN t[i] ELSE "EOF"
Parsed(pos, val) == [pos |-> pos, val |-> val]

RECURSIVE SkipWs(_, _)
\* the index of the first character at or after i that is not white space
SkipWs(t, i) == IF i = Fail THEN Fail ELSE IF At(t, i) = " " THEN SkipWs(t, i + 1) ELSE i

\* the index after the characters toks when they stand at i, else Fail
Expect(t, i, toks) ==
    IF i # Fail /\ i + Len(toks) - 1 <= Len(t) /\ SubSeq(t, i, i + Len(toks) - 1) = toks
    THEN i + Len(toks) ELSE Fail

RECURSIVE ScanDigits(_, _, _)
ScanDigits(t, i, acc) ==
    IF At(t, i) \in DigitSet THEN ScanDigits(t, i + 1, acc * 10 + DigitVal(t[i]))
    ELSE Parsed(i, acc)

\* the digits d read from index first on, after a sign when neg
SignedInt(t, first, neg, d) ==
    IF d.pos = first \/ (At(t, first) = "0" /\ d.pos > first + 1) THEN Parsed(Fail, 0)
    ELSE Parsed(d.pos, IF neg THEN -d.val ELSE d.val)

\* an integer literal: -? (0 | [1-9][0-9]*)
ParseInt(t, i) ==
    IF i = Fail THEN Parsed(Fail, 0)
    ELSE IF At(t, i) = "-" THEN SignedInt(t, i + 1, TRUE, ScanDigits(t, i + 1, 0))
    ELSE SignedInt(t, i, FALSE, ScanDigits(t, i, 0))

\* the fraction f read after the point that follows the integer part n; the
\* model's clock ticks are whole, so the fraction read back must be zero
Fraction(n, f) == IF f.pos = n.pos + 1 \/ f.val # 0 THEN Parsed(Fail, 0) ELSE Parsed(f.pos, n.val)
WithFraction(t, n) == IF n.pos = Fail \/ At(t, n.pos) # "." THEN n ELSE Fraction(n, ScanDigits(t, n.pos + 1, 0))

\* a number with an optional fraction
ParseFloat(t, i) == WithFraction(t, ParseInt(t, i))

RECURSIVE ScanString(_, _, _)
ScanString(t, i, acc) ==
    IF i > Len(t) THEN Parsed(Fail, acc)
    ELSE IF t[i] = Quote THEN Parsed(i + 1, acc)
    ELSE ScanString(t, i + 1, Append(acc, t[i]))

ParseStr(t, i) == IF i = Fail \/ At(t, i) # Quote THEN Parsed(Fail, << >>) ELSE ScanString(t, i + 1, << >>)

AsStr(s) == Parsed(s.pos, Str(s.val))
ParseSession(t, i) ==
    IF i = Fail THEN Parsed(Fail, None)
    ELSE IF At(t, i) = "null" THEN Parsed(i + 1, None)
    ELSE AsStr(ParseStr(t, i))

\* the index of the value of member key, whose name stands at or after i
ParseKey(t, i, key) == SkipWs(t, Expect(t, SkipWs(t, Expect(t, SkipWs(t, i), DumpStr(<<key>>))), <<":">>))

\* the index after the comma that follows a member
ParseComma(t, i) == Expect(t, SkipWs(t, i), <<",">>)

\* an object holding the four members of a sample, read member by member
ParseClose(t, x, y, ts, se) == Parsed(Expect(t, SkipWs(t, se.pos), <<"}">>), NewSample(x, y, ts, se.val))
ParseMemberSession(t, x, y, ts) == ParseClose(t, x, y, ts.val, ParseSession(t, ParseKey(t, ParseComma(t, ts.pos), "session")))
ParseMemberTimestamp(t, x, y) == ParseMemberSession(t, x, y.val, ParseFloat(t, ParseKey(t, ParseComma(t, y.pos), "timestamp")))
ParseMemberY(t, x) == ParseMemberTimestamp(t, x.val, ParseInt(t, ParseKey(t, ParseComma(t, x.pos), "y")))
ParseSample(t, i) == ParseMemberY(t, ParseInt(t, ParseKey(t, Expect(t, i, <<"{">>), "x")))

RECURSIVE ParseItems(_, _, _)
\* after the item s of an array: its end, or a comma and the next item
ParseMore(t, s, after, acc) ==
    IF s.pos = Fail THEN Parsed(Fail, acc)
    ELSE IF At(t, after) = "]" THEN Parsed(after + 1, Append(acc, s.val))
    ELSE IF At(t, after) = "," THEN ParseItems(t, SkipWs(t, after + 1), Append(acc, s.val))
    ELSE Parsed(Fail, acc)

\* the items of a non-empty array, the first of which stands at i
ParseNext(t, s, acc) == ParseMore(t, s, SkipWs(t, s.pos), acc)
ParseItems(t, i, acc) == ParseNext(t, ParseSample(t, i), acc)

ParseListFrom(t, first) == IF At(t, first) = "]" THEN Parsed(first + 1, << >>) ELSE ParseItems(t, first, << >>)
ParseList(t, i) == ParseListFrom(t, SkipWs(t, i + 1))

AsList(l) == Parsed(l.pos, PyList(l.val))
AsDict(s) == Parsed(s.pos, PyDict(s.val))

\* the JSON value that stands at i
ParseValue(t, i) ==
    CASE At(t, i) = "null" -> Parsed(i + 1, PyNone)
      [] At(t, i) = "[" -> AsList(ParseList(t, i))
      [] At(t, i) = "{" -> AsDict(ParseSample(t, i))
      [] OTHER -> Parsed(Fail, PyNone)

\* the value v must be followed by nothing but white space
Whole(text, v) == [ok |-> SkipWs(text, v.pos) = Len(text) + 1, obj |-> v.val]

\* json.loads(text): [ok, obj]; ok is FALSE where json raises JSONDecodeError
JsonLoad(text) == Whole(text, ParseValue(text, SkipWs(text, 1)))

\* ------------------------------------------------------- the data file
NoFile == [exists |-> FALSE, text |-> << >>]
FileOf(text) == [exists |-> TRUE, text |-> text]

\* what a write leaves on disk when it fails part-way (open(..., 'w') has
\* truncated the file and json.dump raised before the end)
Partial(text) == SubSeq(text, 1, Len(text) \div 2)

\* outcomes of the operating system's part of a save and of a load
SaveOutcomes == {"ok", "open_fails", "write_fails"}
LoadOutcomes == {"ok", "read_fails"}

\* ------------------------------------------------------ screen regions
Region(x, y, w, h) == [x |-> x, y |-> y, width |-> w, height |-> h]

SetMin(S) == CHOOSE m \in S : \A n \in S : m <= n
SetMax(S) == CHOOSE m \in S : \A n \in S : m >= n

\* the bounds __init__ derives from screeninfo.get_monitors()
BoundsMinX(scr) == SetMin({r.x : r \in scr})
BoundsMaxX(scr) == SetMax({r.x + r.width : r \in scr})
BoundsMinY(scr) == 0
BoundsMaxY(scr) == SetMax({r.y + r.height : r \in scr})

\* ---------------------------------------------------------------- state
VARIABLES
    running,             \* the process is alive (between __init__ and root.destroy())
    is_monitoring,       \* self.is_monitoring
    pointer_data,        \* self.pointer_data
    session_start_time,  \* self.session_start_time
    listener,            \* self.listener: "None" or the started mouse.Listener
    screens,             \* self.screens
    min_x,               \* self.min_x
    max_x,               \* self.max_x
    min_y,               \* self.min_y
    max_y,               \* self.max_y
    screen_width,        \* self.screen_width
    screen_height,       \* self.screen_height
    file,                \* pointer_data.json on disk
    viz_open,            \* a visualization window (with its Clear Data button) is open
    heatmap,             \* heatmap_data of the create_heatmap call of the last handler, if it made one
    clock,               \* the wall clock
    raised,              \* the last handler ended with an uncaught exception
    saved,               \* outcome of the save_data call of the last handler, "none" without one
    last,                \* the last handler run and its inputs
    main_pc,             \* where the main flow (the Tk thread) is, inside a handler or in mainloop
    frame,               \* the locals of the handler the main flow is in
    callback             \* the on_mouse_move call the listener thread is in, if any

topology == <<screens, min_x, max_x, min_y, max_y, screen_width, screen_height>>
threads == <<main_pc, frame, callback>>
vars == <<running, is_monitoring, pointer_data, session_start_time, listener, topology, file, viz_open, heatmap, clock, raised, saved, last, threads>>

\* the main flow between two handlers, and the listener thread between two events
NoFrame == [then |-> "mainloop", i |-> 0, out |-> << >>, io |-> "none"]
NoCallback == [pc |-> "none", x |-> 0, y |-> 0, during |-> None]
\* a handler that runs from mainloop to mainloop with no listener callback inside it
Atomic == main_pc = "mainloop" /\ callback = NoCallback /\ UNCHANGED threads

NoHeatmap == [made |-> FALSE, grid |-> EmptyBag]

\* the mutable part of the program and its environment, as one record the
\* handlers below map to its next value; a handler starts with no exception,
\* no save and no heatmap
Self ==
    [is_monitoring |-> is_monitoring, pointer_data |-> pointer_data,
     session_start_time |-> session_start_time, listener |-> listener,
     file |-> file, viz_open |-> viz_open, heatmap |-> NoHeatmap, raised |-> FALSE, saved |-> "none"]

Become(s) ==
    /\ is_monitoring' = s.is_monitoring
    /\ pointer_data' = s.pointer_data
    /\ session_start_time' = s.session_start_time
    /\ listener' = s.listener
    /\ file' = s.file
    /\ viz_open' = s.viz_open
    /\ heatmap' = s.heatmap
    /\ raised' = s.raised
    /\ saved' = s.saved

Did(op, x, y, confirm) == last' = [op |-> op, x |-> x, y |-> y, confirm |-> confirm]

\* ------------------------------------------------------------- handlers
\* a slip in the append: the sample put in front
PrependSample(items, sample) == <<sample>> \o items

\* list.append of on_mouse_move
AppendSample(items, sample) == Append(items, sample)

\* on_mouse_move(x, y) at clock reading t
on_mouse_move(s, x, y, t) ==
    IF s.is_monitoring
    THEN IF s.pointer_data.type = "list"
         THEN [s EXCEPT !.pointer_data = PyList(AppendSample(s.pointer_data.items, NewSample(x, y, t, s.session_start_time)))]
         ELSE [s EXCEPT !.raised = TRUE]   \* AttributeError: no .append
    ELSE s

\* the guard of start_monitoring
MayStart(monitoring) == ~monitoring

\* start_monitoring() at clock reading t
start_monitoring(s, t) ==
    IF MayStart(s.is_monitoring)
    THEN [s EXCEPT !.is_monitoring = TRUE, !.session_start_time = IsoFormat(t), !.listener = "Listener"]
    ELSE s

\* save_data() with the outcome io of the file system
save_data(s, io) ==
    CASE io = "ok" -> [s EXCEPT !.file = FileOf(JsonDump(s.pointer_data)), !.saved = "ok"]
      [] io = "write_fails" -> [s EXCEPT !.file = FileOf(Partial(JsonDump(s.pointer_data))), !.saved = "write_fails"]
      [] OTHER -> [s EXCEPT !.saved = "open_fails"]

\* a slip in the guard: stop_monitoring runs whatever the flag
MayStopAlways(monitoring) == TRUE

\* the guard of stop_monitoring
MayStop(monitoring) == monitoring

\* stop_monitoring()
stop_monitoring(s, io) ==
    IF MayStop(s.is_monitoring)
    THEN save_data([s EXCEPT !.is_monitoring = FALSE, !.listener = "None"], io)
    ELSE s

\* what load_data leaves in self.pointer_data once json.load returned r
Loaded(r) ==
    IF ~r.ok THEN PyList(<< >>)                           \* JSONDecodeError
    ELSE IF r.obj.type = "NoneType" THEN PyList(<< >>)    \* len(None): TypeError
    ELSE r.obj

\* load_data(): the object left in self.pointer_data, which held data
load_data(data, f, io) ==
    IF io = "read_fails" THEN PyList(<< >>)
    ELSE IF ~f.exists THEN data
    ELSE Loaded(JsonLoad(f.text))

\* ------------------------------------------------------ create_heatmap
\* the coordinate pair create_heatmap appends to x_coords, y_coords
NormalizeY(y) == IF y < 0 THEN -y ELSE y

\* np.linspace(lo, hi, Resolution)[i], times Resolution - 1 (exact arithmetic)
EdgeScaled(lo, hi, i) == lo * (Resolution - 1) + i * (hi - lo)

\* np.histogramdd raises ValueError unless the edges increase monotonically
EdgesIncrease(lo, hi) == hi >= lo

\* np.searchsorted(edges, v, side='right'), less one for a value on the last
\* edge: 0 and Resolution are the two outlier slots that hist[core] drops
BinSlot(v, lo, hi) ==
    LET n == Cardinality({i \in 0..(Resolution - 1) : EdgeScaled(lo, hi, i) <= v * (Resolution - 1)})
    IN IF v = hi THEN n - 1 ELSE n

InCore(slot) == slot >= 1 /\ slot <= Resolution - 1

\* the cell of heatmap_data a sample is counted in, as the set holding it, or
\* the empty set for a sample histogram2d leaves out
CellOf(p, b) ==
    LET sx == BinSlot(p.x, b.min_x, b.max_x)
        sy == BinSlot(NormalizeY(p.y), b.min_y, b.max_y)
    IN IF InCore(sx) /\ InCore(sy) THEN {<<sx - 1, sy - 1>>} ELSE {}

RECURSIVE Histogram2d(_, _)
\* heatmap_data as the bag of its cells: CopiesIn(c, grid) is the count of c
Histogram2d(items, b) ==
    IF items = << >> THEN EmptyBag
    ELSE SetToBag(CellOf(items[1], b)) (+) Histogram2d(Tail(items), b)

\* show_visualization(), as far as the heatmap window; b holds the bounds
show_visualization(s, io, b) ==
    LET s1 == IF s.is_monitoring THEN stop_monitoring(s, io) ELSE s
    IN CASE s1.pointer_data.type # "list" -> [s1 EXCEPT !.raised = TRUE]   \* point['x'] on a key: TypeError
         [] s1.pointer_data.items = << >> -> s1                             \* "No Data" warning, fig is None
         [] ~(EdgesIncrease(b.min_x, b.max_x) /\ EdgesIncrease(b.min_y, b.max_y)) -> [s1 EXCEPT !.raised = TRUE]
         [] OTHER -> [s1 EXCEPT !.viz_open = TRUE, !.heatmap = [made |-> TRUE, grid |-> Histogram2d(s1.pointer_data.items, b)]]

\* a slip in clear_data: the store saved without being emptied
clear_data_keeps(s, confirm, io) == IF confirm THEN save_data(s, io) ELSE s

\* clear_data() with the answer to the askyesno dialog
clear_data(s, confirm, io) ==
    IF confirm THEN save_data([s EXCEPT !.pointer_data = PyList(<< >>)], io) ELSE s

\* on_closing(): root.destroy() takes the visualization windows with it
on_closing(s, io) ==
    LET s1 == IF s.is_monitoring THEN stop_monitoring(s, io) ELSE s
    IN [s1 EXCEPT !.viz_open = FALSE]

\* --------------------------------------------------------------- inputs
\* pointer positions the listener reports
EventPoints == {<<120, -30>>}

\* a sample written by an earlier run
OldSample == NewSample(-217, 982, 0, IsoFormat(0))

\* data files a run can start with: none, one cut short, ones save_data wrote
SavedFiles == {NoFile, FileOf(<<"[", " ", "{">>), FileOf(JsonDump(PyList(<< >>))), FileOf(JsonDump(PyList(<<OldSample>>)))}
\* a sample without a session id, as another writer may have left it
UnsessionedSample == NewSample(7, -8, 1, None)

\* and files that hold other JSON: null, one record outside a list, nothing,
\* a list whose record has a null session
ForeignFiles == {FileOf(<<"null">>), FileOf(DumpSample(OldSample)), FileOf(<< >>), FileOf(JsonDump(PyList(<<UnsessionedSample>>)))}

\* one screen at the origin
PrimaryScreen == {Region(0, 0, 1512, 982)}

\* ---------------------------------------------------------------- actions
Bounds == [min_x |-> min_x, max_x |-> max_x, min_y |-> min_y, max_y |-> max_y]

\* min() and max() of lines 40-43 raise ValueError on an empty sequence
ScreensFound(scr) == scr # {}

\* __init__ on no screen: line 40 raises before the bounds, the window and
\* load_data; main() prints "Application error" and returns, the process ends.
\* The attributes never assigned are written as 0.
ConstructRaises(scr, f) ==
    /\ running' = FALSE
    /\ screens' = scr
    /\ min_x' = 0 /\ max_x' = 0 /\ min_y' = 0 /\ max_y' = 0
    /\ screen_width' = 0 /\ screen_height' = 0
    /\ Become([is_monitoring |-> FALSE, pointer_data |-> PyList(<< >>),
               session_start_time |-> None, listener |-> "None", file |-> f, viz_open |-> FALSE,
               heatmap |-> NoHeatmap, raised |-> TRUE, saved |-> "none"])
    /\ Did("startup", 0, 0, FALSE)
    /\ main_pc' = "mainloop" /\ frame' = NoFrame /\ callback' = NoCallback

\* the state ConstructRaises leaves
ConstructRaised(scr, f) ==
    /\ running = FALSE
    /\ screens = scr
    /\ min_x = 0 /\ max_x = 0 /\ min_y = 0 /\ max_y = 0
    /\ screen_width = 0 /\ screen_height = 0
    /\ is_monitoring = FALSE
    /\ pointer_data = PyList(<< >>)
    /\ session_start_time = None
    /\ listener = "None"
    /\ file = f
    /\ viz_open = FALSE
    /\ heatmap = NoHeatmap
    /\ raised = TRUE
    /\ saved = "none"
    /\ last = [op |-> "startup", x |-> 0, y |-> 0, confirm |-> FALSE]
    /\ clock = 0
    /\ main_pc = "mainloop" /\ frame = NoFrame /\ callback = NoCallback

\* __init__ and setup_ui of a process started on screens scr with data file f
Construct(scr, f, io) ==
    IF ~ScreensFound(scr) THEN ConstructRaises(scr, f)
    ELSE
    /\ running' = TRUE
    /\ screens' = scr
    /\ min_x' = BoundsMinX(scr)
    /\ max_x' = BoundsMaxX(scr)
    /\ min_y' = BoundsMinY(scr)
    /\ max_y' = BoundsMaxY(scr)
    /\ screen_width' = BoundsMaxX(scr) - BoundsMinX(scr)
    /\ screen_height' = BoundsMaxY(scr) - BoundsMinY(scr)
    /\ Become([is_monitoring |-> FALSE, pointer_data |-> load_data(PyList(<< >>), f, io),
               session_start_time |-> None, listener |-> "None", file |-> f, viz_open |-> FALSE,
               heatmap |-> NoHeatmap, raised |-> FALSE, saved |-> "none"])
    /\ Did("startup", 0, 0, FALSE)
    /\ main_pc' = "mainloop" /\ frame' = NoFrame /\ callback' = NoCallback

\* the state after construction, as Construct leaves it
Constructed(scr, f, io) ==
    IF ~ScreensFound(scr) THEN ConstructRaised(scr, f)
    ELSE
    /\ running = TRUE
    /\ screens = scr
    /\ min_x = BoundsMinX(scr)
    /\ max_x = BoundsMaxX(scr)
    /\ min_y = BoundsMinY(scr)
    /\ max_y = BoundsMaxY(scr)
    /\ screen_width = BoundsMaxX(scr) - BoundsMinX(scr)
    /\ screen_height = BoundsMaxY(scr) - BoundsMinY(scr)
    /\ is_monitoring = FALSE
    /\ pointer_data = load_data(PyList(<< >>), f, io)
    /\ session_start_time = None
    /\ listener = "None"
    /\ file = f
    /\ viz_open = FALSE
    /\ heatmap = NoHeatmap
    /\ raised = FALSE
    /\ saved = "none"
    /\ last = [op |-> "startup", x |-> 0, y |-> 0, confirm |-> FALSE]
    /\ clock = 0
    /\ main_pc = "mainloop" /\ frame = NoFrame /\ callback = NoCallback

\* the listener thread (or any caller) delivers a pointer position
OnMouseMove ==
    /\ running
    /\ Atomic
    /\ is_monitoring => Len(pointer_data.items) < MaxSamples
    /\ \E p \in EventPoints, t \in clock..MaxClock :
          /\ Become(on_mouse_move(Self, p[1], p[2], t))
          /\ Did("on_mouse_move", p[1], p[2], FALSE)
          /\ clock' = t
    /\ UNCHANGED <<running, topology>>

StartMonitoring ==
    /\ running
    /\ Atomic
    /\ \E t \in clock..MaxClock :
          /\ Become(start_monitoring(Self, t))
          /\ clock' = t
    /\ Did("start_monitoring", 0, 0, FALSE)
    /\ UNCHANGED <<running, topology>>

StopMonitoring ==
    /\ running
    /\ Atomic
    /\ \E io \in SaveOutcomes : Become(stop_monitoring(Self, io))
    /\ Did("stop_monitoring", 0, 0, FALSE)
    /\ UNCHANGED <<running, topology, clock>>

ShowVisualization ==
    /\ running
    /\ Atomic
    /\ \E io \in SaveOutcomes : Become(show_visualization(Self, io, Bounds))
    /\ Did("show_visualization", 0, 0, FALSE)
    /\ UNCHANGED <<running, topology, clock>>

\* the Clear Data button of a visualization window
ClearData ==
    /\ running
    /\ Atomic
    /\ viz_open
    /\ \E confirm \in BOOLEAN, io \in SaveOutcomes :
          /\ Become(clear_data(Self, confirm, io))
          /\ Did("clear_data", 0, 0, confirm)
    /\ UNCHANGED <<running, topology, clock>>

\* WM_DELETE_WINDOW of the control panel: mainloop returns, the process ends
OnClosing ==
    /\ running
    /\ Atomic
    /\ \E io \in SaveOutcomes : Become(on_closing(Self, io))
    /\ Did("on_closing", 0, 0, FALSE)
    /\ running' = FALSE
    /\ UNCHANGED <<topology, clock>>

\* the program is started again: main() builds a new PointerActivityMonitor
Startup ==
    /\ ~running
    /\ \E io \in LoadOutcomes : Construct(screens, file, io)
    /\ UNCHANGED clock

Next ==
    \/ OnMouseMove
    \/ StartMonitoring
    \/ StopMonitoring
    \/ ShowVisualization
    \/ ClearData
    \/ OnClosing
    \/ Startup

\* a run on one screen whose data file is absent, cut short or was written by save_data
Init == \E f \in SavedFiles, io \in LoadOutcomes : Constructed(PrimaryScreen, f, io)

Spec == Init /\ [][Next]_vars

\* a run whose data file may also hold JSON that save_data never writes
InitLoad == \E f \in SavedFiles \cup ForeignFiles, io \in LoadOutcomes : Constructed(PrimaryScreen, f, io)

SpecLoad == InitLoad /\ [][Next]_vars

\* what screeninfo.get_monitors() returns at startup: one screen, or none
StartupScreens == {PrimaryScreen, {}}

\* a run on one screen or on none
InitScreens == \E scr \in StartupScreens, f \in SavedFiles, io \in LoadOutcomes : Constructed(scr, f, io)

SpecScreens == InitScreens /\ [][Next]_vars

\* ------------------------------------------------- the binning on its own
Regions == {Region(x, y, w, h) : x \in -MaxOriginX..MaxOriginX, y \in -MaxOriginY..MaxOriginY, w \in 1..MaxSize, h \in 1..MaxSize}
RECURSIVE ScreensUpTo(_)
ScreensUpTo(n) == IF n = 1 THEN {{r} : r \in Regions} ELSE LET fewer == ScreensUpTo(n - 1) IN fewer \cup {t \cup {r} : t \in fewer, r \in Regions}
\* what screeninfo.get_monitors() may return: one to MaxScreens screens
Topologies == ScreensUpTo(MaxScreens)

\* stored samples, as loaded from the data file
BinSamples == {NewSample(x, y, 0, IsoFormat(0)) : x \in -MaxCoord..MaxCoord, y \in -MaxCoord..MaxCoord}
RECURSIVE SeqsUpTo(_, _)
SeqsUpTo(S, n) == IF n = 0 THEN {<< >>} ELSE LET shorter == SeqsUpTo(S, n - 1) IN shorter \cup {Append(q, e) : q \in shorter, e \in S}
BinInputs == SeqsUpTo(BinSamples, MaxBinned)

\* a run on any topology whose data file holds any stored samples
InitHeatmap == \E scr \in Topologies, items \in BinInputs : Constructed(scr, FileOf(JsonDump(PyList(items))), "ok")

NextHeatmap == ShowVisualization

SpecHeatmap == InitHeatmap /\ [][NextHeatmap]_vars

\* ------------------------------- the listener thread beside the main flow
\* The pynput listener thread calls on_mouse_move while the Tk thread runs the
\* handlers; nothing in the program orders the two (no lock, no queue, no
\* join), so the interpreter may switch threads between any two statements.
\* A handler is one step per statement that reads or writes a shared field,
\* and one step per item of a loop over pointer_data.

\* what each step below leaves alone
Fields == <<is_monitoring, pointer_data, session_start_time, listener, file, viz_open, heatmap, raised, saved>>

\* the main flow enters a handler: no save, no heatmap, no exception yet
Enter(op) ==
    /\ running
    /\ main_pc = "mainloop"
    /\ Did(op, 0, 0, FALSE)
    /\ heatmap' = NoHeatmap /\ raised' = FALSE /\ saved' = "none"

\* stop_monitoring, lines 143-144; the handler that called it goes on at then
StopFlag(then) ==
    /\ is_monitoring' = FALSE
    /\ main_pc' = "stop_listener"
    /\ frame' = [NoFrame EXCEPT !.then = then]

\* on_mouse_move, line 115: the listener thread of a running listener reads is_monitoring
DeliverEvent ==
    /\ running
    /\ listener = "Listener"
    /\ callback.pc = "none"
    /\ Len(pointer_data.items) < MaxSamples
    /\ \E p \in EventPoints :
          callback' = IF is_monitoring
                      THEN [pc |-> "checked", x |-> p[1], y |-> p[2], during |-> session_start_time]
                      ELSE callback
    /\ UNCHANGED <<running, topology, Fields, clock, last, main_pc, frame>>

\* on_mouse_move, lines 116-122: the timestamp, the session id, the append
AppendEvent ==
    /\ running
    /\ callback.pc = "checked"
    /\ \E t \in clock..MaxClock :
          /\ pointer_data' = PyList(AppendSample(pointer_data.items, NewSample(callback.x, callback.y, t, session_start_time)))
          /\ clock' = t
    /\ callback' = NoCallback
    /\ UNCHANGED <<running, topology, is_monitoring, session_start_time, listener, file, viz_open,
                   heatmap, raised, saved, last, main_pc, frame>>

\* start_monitoring, lines 126-127
StartFlag ==
    /\ Enter("start_monitoring")
    /\ IF MayStart(is_monitoring)
       THEN is_monitoring' = TRUE /\ main_pc' = "start_session"
       ELSE UNCHANGED <<is_monitoring, main_pc>>
    /\ UNCHANGED <<running, topology, pointer_data, session_start_time, listener, file, viz_open, clock, frame, callback>>

\* start_monitoring, line 128
StartSession ==
    /\ main_pc = "start_session"
    /\ \E t \in clock..MaxClock : session_start_time' = IsoFormat(t) /\ clock' = t
    /\ main_pc' = "start_listener"
    /\ UNCHANGED <<running, topology, is_monitoring, pointer_data, listener, file, viz_open,
                   heatmap, raised, saved, last, frame, callback>>

\* start_monitoring, lines 136-137
StartListener ==
    /\ main_pc = "start_listener"
    /\ listener' = "Listener"
    /\ main_pc' = "mainloop"
    /\ UNCHANGED <<running, topology, is_monitoring, pointer_data, session_start_time, file, viz_open,
                   heatmap, raised, saved, last, clock, frame, callback>>

\* the Stop button: stop_monitoring, lines 143-144
StopButton ==
    /\ Enter("stop_monitoring")
    /\ IF MayStop(is_monitoring) THEN StopFlag("mainloop") ELSE UNCHANGED <<is_monitoring, main_pc, frame>>
    /\ UNCHANGED <<running, topology, pointer_data, session_start_time, listener, file, viz_open, clock, callback>>

\* stop_monitoring, lines 152-154: listener.stop() returns without waiting
\* for the listener thread, whose call in progress goes on
StopListener ==
    /\ main_pc = "stop_listener"
    /\ listener' = "None"
    /\ main_pc' = "save_open"
    /\ UNCHANGED <<running, topology, is_monitoring, pointer_data, session_start_time, file, viz_open,
                   heatmap, raised, saved, last, clock, frame, callback>>

\* save_data, line 164: open(self.data_file, 'w') truncates the file or raises
SaveOpen ==
    /\ main_pc = "save_open"
    /\ \E io \in SaveOutcomes :
          IF io = "open_fails"
          THEN saved' = "open_fails" /\ main_pc' = frame.then /\ frame' = NoFrame /\ UNCHANGED file
          ELSE /\ file' = FileOf(<< >>)
               /\ main_pc' = "dumping"
               /\ frame' = [frame EXCEPT !.i = 1, !.out = << >>, !.io = io]
               /\ UNCHANGED saved
    /\ UNCHANGED <<running, topology, is_monitoring, pointer_data, session_start_time, listener, viz_open,
                   heatmap, raised, last, clock, callback>>

\* save_data, line 165: json.dump reads the next item of self.pointer_data
DumpItem ==
    /\ main_pc = "dumping"
    /\ frame.i <= Len(pointer_data.items)
    /\ frame' = [frame EXCEPT !.i = frame.i + 1, !.out = Append(frame.out, pointer_data.items[frame.i])]
    /\ UNCHANGED <<running, topology, Fields, clock, last, main_pc, callback>>

\* save_data, lines 165-168: the list is exhausted, the text is in the file
\* (or half of it, and the exception is printed)
DumpEnd ==
    /\ main_pc = "dumping"
    /\ frame.i > Len(pointer_data.items)
    /\ file' = IF frame.io = "ok" THEN FileOf(JsonDump(PyList(frame.out)))
                ELSE FileOf(Partial(JsonDump(PyList(frame.out))))
    /\ saved' = frame.io
    /\ main_pc' = frame.then
    /\ frame' = NoFrame
    /\ UNCHANGED <<running, topology, is_monitoring, pointer_data, session_start_time, listener, viz_open,
                   heatmap, raised, last, clock, callback>>

\* show_visualization, lines 296-297
ShowButton ==
    /\ Enter("show_visualization")
    /\ IF is_monitoring THEN StopFlag("heatmap")
       ELSE main_pc' = "heatmap" /\ UNCHANGED <<is_monitoring, frame>>
    /\ UNCHANGED <<running, topology, pointer_data, session_start_time, listener, file, viz_open, clock, callback>>

\* create_heatmap, lines 183-191
HeatmapBegin ==
    /\ main_pc = "heatmap"
    /\ IF pointer_data.items = << >>
       THEN main_pc' = "mainloop" /\ UNCHANGED frame
       ELSE main_pc' = "binning" /\ frame' = [NoFrame EXCEPT !.i = 1]
    /\ UNCHANGED <<running, topology, Fields, clock, last, callback>>

\* create_heatmap, lines 193-213: the loop reads the next item of self.pointer_data
BinItem ==
    /\ main_pc = "binning"
    /\ frame.i <= Len(pointer_data.items)
    /\ frame' = [frame EXCEPT !.i = frame.i + 1, !.out = Append(frame.out, pointer_data.items[frame.i])]
    /\ UNCHANGED <<running, topology, Fields, clock, last, main_pc, callback>>

\* create_heatmap, lines 216-220, and the window of show_visualization
BinEnd ==
    /\ main_pc = "binning"
    /\ frame.i > Len(pointer_data.items)
    /\ IF EdgesIncrease(min_x, max_x) /\ EdgesIncrease(min_y, max_y)
       THEN heatmap' = [made |-> TRUE, grid |-> Histogram2d(frame.out, Bounds)] /\ viz_open' = TRUE /\ UNCHANGED raised
       ELSE raised' = TRUE /\ UNCHANGED <<heatmap, viz_open>>
    /\ main_pc' = "mainloop"
    /\ frame' = NoFrame
    /\ UNCHANGED <<running, topology, is_monitoring, pointer_data, session_start_time, listener, file,
                   saved, last, clock, callback>>

\* clear_data, lines 393-394, confirmed
ClearButton ==
    /\ Enter("clear_data")
    /\ viz_open
    /\ pointer_data' = PyList(<< >>)
    /\ main_pc' = "save_open"
    /\ UNCHANGED <<running, topology, is_monitoring, session_start_time, listener, file, viz_open, clock, frame, callback>>

\* on_closing, lines 400-401
CloseButton ==
    /\ Enter("on_closing")
    /\ IF is_monitoring THEN StopFlag("destroy")
       ELSE main_pc' = "destroy" /\ UNCHANGED <<is_monitoring, frame>>
    /\ UNCHANGED <<running, topology, pointer_data, session_start_time, listener, file, viz_open, clock, callback>>

\* on_closing, line 402: mainloop returns, the process and its listener thread end
Destroy ==
    /\ main_pc = "destroy"
    /\ running' = FALSE
    /\ viz_open' = FALSE
    /\ main_pc' = "mainloop"
    /\ UNCHANGED <<topology, is_monitoring, pointer_data, session_start_time, listener, file,
                   heatmap, raised, saved, last, clock, frame, callback>>

NextThreads ==
    \/ DeliverEvent
    \/ AppendEvent
    \/ StartFlag
    \/ StartSession
    \/ StartListener
    \/ StopButton
    \/ StopListener
    \/ SaveOpen
    \/ DumpItem
    \/ DumpEnd
    \/ ShowButton
    \/ HeatmapBegin
    \/ BinItem
    \/ BinEnd
    \/ ClearButton
    \/ CloseButton
    \/ Destroy

InitThreads == \E f \in SavedFiles : Constructed(PrimaryScreen, f, "ok")

SpecThreads == InitThreads /\ [][NextThreads]_vars

\* ================================================================ claims
\* the fields of the monitor other than the store, and its surroundings
Surroundings == <<is_monitoring, session_start_time, listener, file, viz_open, running, topology>>

IsPrefix(a, b) == Len(a) <= Len(b) /\ SubSeq(b, 1, Len(a)) = a

\* what load_data would leave in the store of a process started now
Reloaded == load_data(PyList(<< >>), file, "ok")

\* C1: a step of on_mouse_move(x, y) taken while is_monitoring appends exactly
\* one sample holding the given x and y, the clock reading and the current
\* session_start_time to the end of pointer_data; taken while idle it changes
\* nothing; in both cases every other field stays as it was.
C1_OnMouseMoveAppendsOneSample ==
    [][last'.op = "on_mouse_move" =>
          /\ UNCHANGED Surroundings
          /\ ~raised'
          /\ IF is_monitoring
             THEN pointer_data' = PyList(Append(pointer_data.items,
                      [x |-> last'.x, y |-> last'.y, timestamp |-> clock', session |-> session_start_time]))
             ELSE pointer_data' = pointer_data]_vars

\* C1 witness: a pointer event was captured behind an earlier sample
C1_Witness ==
    /\ last.op = "on_mouse_move"
    /\ is_monitoring
    /\ Len(pointer_data.items) = 2
    /\ pointer_data.items[2].x = last.x
    /\ pointer_data.items[2].y = last.y
    /\ pointer_data.items[2].session = session_start_time

\* C2: start_monitoring leaves the monitor capturing and stop_monitoring leaves
\* it idle, neither raises, and a start while capturing or a stop while idle
\* changes no field, writes no file and performs no save.
C2_StartStopIdempotent ==
    [][/\ (last'.op = "start_monitoring" /\ is_monitoring) =>
              (UNCHANGED <<pointer_data, Surroundings>> /\ saved' = "none")
       /\ (last'.op = "stop_monitoring" /\ ~is_monitoring) =>
              (UNCHANGED <<pointer_data, Surroundings>> /\ saved' = "none")
       /\ last'.op = "start_monitoring" => (is_monitoring' /\ listener' = "Listener" /\ ~raised')
       /\ last'.op = "stop_monitoring" => (~is_monitoring' /\ listener' = "None" /\ ~raised')]_vars

\* C2 witness: a redundant stop (no save made) after a session was started,
\* stopped and saved
C2_Witness ==
    /\ last.op = "stop_monitoring"
    /\ saved = "none"
    /\ ~is_monitoring
    /\ session_start_time # None
    /\ file.exists
    /\ Reloaded = pointer_data

\* C3: every step other than a clear_data (and the start of a new process)
\* keeps the earlier pointer_data as a prefix of the later one; clear_data
\* empties the whole store when the dialog is confirmed and leaves it alone
\* when it is not.
C3_AppendOnly ==
    [][/\ last'.op \notin {"clear_data", "startup"} =>
              (pointer_data'.type = pointer_data.type /\ IsPrefix(pointer_data.items, pointer_data'.items))
       /\ last'.op = "clear_data" =>
              pointer_data' = (IF last'.confirm THEN PyList(<< >>) ELSE pointer_data)]_vars

\* C3 witness: the sample loaded at startup still stands first after a capture,
\* a stop, its save and a visualization
C3_Witness ==
    /\ last.op = "show_visualization"
    /\ saved = "ok"
    /\ Len(pointer_data.items) = 2
    /\ pointer_data.items[1] = OldSample

\* C4: once save_data has written the file without an I/O failure, load_data
\* of that file gives back pointer_data: same records, same order, same x, y,
\* timestamp and session.
C4_SaveLoadRoundTrip == saved = "ok" => Reloaded = pointer_data

\* C4 witness: a saved list of two samples, with a negative coordinate, a
\* null session and a session string among them
C4_Witness ==
    /\ saved = "ok"
    /\ pointer_data.type = "list"
    /\ Len(pointer_data.items) = 2
    /\ pointer_data.items[1].session = None
    /\ pointer_data.items[2].session # None
    /\ pointer_data.items[2].y < 0

Corrupt(text) == ~JsonLoad(text).ok \/ JsonLoad(text).obj.type # "list"

\* C6 as claimed: a process started on a missing or corrupt data file is idle
\* with an empty list in pointer_data, and nothing was raised.
C6_LoadCorruptYieldsEmpty ==
    (last.op = "startup" /\ (~file.exists \/ Corrupt(file.text))) =>
        (pointer_data = PyList(<< >>) /\ running /\ ~is_monitoring /\ ~raised)

\* the number of samples counted in the cells of heatmap_data
GridTotal == BagCardinality(heatmap.grid)

\* C7 as claimed: the cell counts of the grid built by create_heatmap sum to
\* the number of stored samples.
C7_NoSilentDrops == heatmap.made => GridTotal = Len(pointer_data.items)

\* a stored sample that create_heatmap bins at (max_x, max_y)
AtMaxCorner(p) == p.x = max_x /\ NormalizeY(p.y) = max_y

\* C8 as claimed: each axis has Resolution intervals, and a sample at
\* (max_x, max_y) is counted in cell (Resolution - 1, Resolution - 1).
C8_MaxCornerInLastCell ==
    (heatmap.made /\ \E i \in 1..Len(pointer_data.items) : AtMaxCorner(pointer_data.items[i])) =>
        CopiesIn(<<Resolution - 1, Resolution - 1>>, heatmap.grid) >= 1

\* the raw sample lies inside one of the screen regions
InsideSomeRegion(p) == \E r \in screens : r.x <= p.x /\ p.x <= r.x + r.width /\ r.y <= p.y /\ p.y <= r.y + r.height

\* C9 as claimed: the pair create_heatmap bins for a sample that lies inside
\* a screen region is inside the bounds computed by __init__.
C9_NormalizedInsideBounds ==
    heatmap.made =>
        \A i \in 1..Len(pointer_data.items) :
            InsideSomeRegion(pointer_data.items[i]) =>
                /\ min_x <= pointer_data.items[i].x
                /\ pointer_data.items[i].x <= max_x
                /\ min_y <= NormalizeY(pointer_data.items[i].y)
                /\ NormalizeY(pointer_data.items[i].y) <= max_y

\* C10 as claimed: the bounds computed at startup have positive extent on
\* both axes.
C10_BoundsHaveExtent == max_x > min_x /\ max_y > min_y /\ screen_width > 0 /\ screen_height > 0

\* ---------------------------------------------------------------- C11
\* C11 as claimed: a process started with zero screen regions is not ended by
\* that: its monitor exists, no exception left __init__, and it can capture
\* (start_monitoring, on_mouse_move, stop_monitoring are available).
C11_NoScreensStillCaptures == ~ScreensFound(screens) => running /\ ~raised

\* ---------------------------------------------------------------- C12
\* the listener thread's append, lines 117-122, is the step taken
Appends == callback.pc = "checked" /\ callback'.pc = "none"
Appended == pointer_data'.items[Len(pointer_data'.items)]

\* C12 as claimed: in every interleaving of the listener thread with the main
\* flow a sample is appended only while the monitor is capturing (never
\* before the first start, never after stop_monitoring has set it idle), and
\* it carries the session id of the interval its event was delivered in.
C12_NoSampleOutsideSession == [][Appends => is_monitoring /\ Appended.session = callback.during]_vars

\* ---------------------------------------------------------------- C13
\* the main flow is inside json.dump of save_data or inside the coordinate
\* loop of create_heatmap
Iterating == main_pc \in {"dumping", "binning"}

\* C13 as claimed: in no interleaving does on_mouse_move append to
\* pointer_data while the main flow is iterating pointer_data.
C13_AppendsSerialized == [][Len(pointer_data'.items) > Len(pointer_data.items) => ~Iterating]_vars

\* ---------------------------------------------------------------- C14
\* the monitor is idle, between two handlers (or exited through on_closing),
\* and the last handler saved the store successfully
IdleAfterSave == ~is_monitoring /\ main_pc = "mainloop" /\ saved = "ok"

\* C14 as claimed: whenever the monitor is idle after a stop_monitoring or a
\* confirmed clear_data whose save succeeded, the data file holds exactly the
\* in-memory pointer_data; so on_closing, whose stop saved, leaves no recorded
\* sample out of the file.
C14_IdleStoreIsPersisted == IdleAfterSave => Reloaded = pointer_data
====
